---- MODULE Spec2Model ----
(***************************************************************************)
(* Study-planner REST backend (src/registerRoutes.ts): the schema, the     *)
(* DatabaseStorage methods and the Express route handlers, over a model of *)
(* the relational store.  Every handler is one atomic step, except         *)
(* POST /api/study-stats, whose createOrUpdateStudyStats awaits twice      *)
(* (lookup by date, then insert or update) and is two steps.               *)
(***************************************************************************)
EXTENDS Integers, Sequences, FiniteSets, Bags, TLC

VARIABLES
  db,     \* the relational store: table name -> set of rows
  seq,    \* last value handed out by each table's serial sequence
  calls,  \* bag of createOrUpdateStudyStats calls suspended at their second await
  last,   \* the latest HTTP exchange: request, status, body, caught error
  prev    \* request line and status of the exchange before it

vars == <<db, seq, calls, last, prev>>

----------------------------------------------------------------------------
(* Bounds of the exploration *)

\* nextval() calls (rows ever inserted, over all tables) explored
MaxInserts == 2
\* createOrUpdateStudyStats calls that may be suspended at the same time
MaxCalls == 2

----------------------------------------------------------------------------
(* JSON / SQL values: tagged so that values of different types compare *)

Str(s)  == <<"string", s>>
Num(n)  == <<"number", n>>
Bool(b) == <<"boolean", b>>
Null    == <<"null">>
NaN     == <<"NaN">>
Undefined == <<"undefined">>

TypeOf(v) == v[1]

\* JavaScript truthiness of the values the handlers test: if (date), if (!subject)
Truthy(v) ==
  CASE v = Undefined -> FALSE
    [] v = Null -> FALSE
    [] v = NaN -> FALSE
    [] TypeOf(v) = "string" -> v[2] # ""
    [] TypeOf(v) = "chars" -> v[2] # <<>>
    [] TypeOf(v) = "number" -> v[2] # 0
    [] TypeOf(v) = "boolean" -> v[2]
    [] OTHER -> TRUE

----------------------------------------------------------------------------
(* parseInt(req.params.id), parseInt(subjectId): a string is a sequence of  *)
(* characters; the longest prefix of decimal digits is the number, and a    *)
(* string that does not start with a digit is NaN.                          *)

Digits == {"0", "1", "2", "3", "4", "5", "6", "7", "8", "9"}

DigitVal(c) ==
  CASE c = "0" -> 0 [] c = "1" -> 1 [] c = "2" -> 2 [] c = "3" -> 3
    [] c = "4" -> 4 [] c = "5" -> 5 [] c = "6" -> 6 [] c = "7" -> 7
    [] c = "8" -> 8 [] c = "9" -> 9

RECURSIVE parseDigits(_, _)
parseDigits(s, acc) ==
  IF s = <<>> \/ Head(s) \notin Digits
    THEN acc
    ELSE parseDigits(Tail(s), 10 * acc + DigitVal(Head(s)))

parseInt(s) ==
  IF s = <<>> \/ Head(s) \notin Digits THEN NaN ELSE Num(parseDigits(s, 0))

----------------------------------------------------------------------------
(* Schema: pgTable declarations.  A column is its property key, its SQL     *)
(* type, NOT NULL, and its default (hasDefault says whether there is one).  *)

Column(n, ty, nn, hd, d) ==
  [name |-> n, type |-> ty, notNull |-> nn, hasDefault |-> hd, default |-> d]

subjects == {
  Column("id", "serial", TRUE, TRUE, Null),
  Column("name", "text", TRUE, FALSE, Null),
  Column("color", "text", TRUE, TRUE, Str("#4F46E5")),
  Column("icon", "text", TRUE, TRUE, Str("fas fa-book")),
  Column("currentTopic", "text", FALSE, FALSE, Null),
  Column("progress", "integer", TRUE, TRUE, Num(0)),
  Column("totalHours", "integer", TRUE, TRUE, Num(0)) }

studySessions == {
  Column("id", "serial", TRUE, TRUE, Null),
  Column("subjectId", "integer", TRUE, FALSE, Null),
  Column("title", "text", TRUE, FALSE, Null),
  Column("description", "text", FALSE, FALSE, Null),
  Column("startTime", "text", TRUE, FALSE, Null),
  Column("endTime", "text", TRUE, FALSE, Null),
  Column("date", "text", TRUE, FALSE, Null),
  Column("status", "text", TRUE, TRUE, Str("upcoming")),
  Column("actualDuration", "integer", FALSE, TRUE, Num(0)) }

notes == {
  Column("id", "serial", TRUE, TRUE, Null),
  Column("subjectId", "integer", TRUE, FALSE, Null),
  Column("title", "text", TRUE, FALSE, Null),
  Column("content", "text", TRUE, FALSE, Null),
  Column("createdAt", "text", TRUE, FALSE, Null) }

goals == {
  Column("id", "serial", TRUE, TRUE, Null),
  Column("title", "text", TRUE, FALSE, Null),
  Column("description", "text", FALSE, FALSE, Null),
  Column("targetDate", "text", TRUE, FALSE, Null),
  Column("progress", "integer", TRUE, TRUE, Num(0)),
  Column("isCompleted", "boolean", TRUE, TRUE, Bool(FALSE)) }

studyStats == {
  Column("id", "serial", TRUE, TRUE, Null),
  Column("date", "text", TRUE, FALSE, Null),
  Column("totalMinutes", "integer", TRUE, TRUE, Num(0)),
  Column("sessionsCompleted", "integer", TRUE, TRUE, Num(0)),
  Column("streak", "integer", TRUE, TRUE, Num(0)) }

\* Tables with the full by-id route set, and all tables the routes reach
CrudTables == {"subjects", "study_sessions", "notes", "goals"}
Tables == CrudTables \cup {"study_stats"}

Schema(t) ==
  CASE t = "subjects" -> subjects
    [] t = "study_sessions" -> studySessions
    [] t = "notes" -> notes
    [] t = "goals" -> goals
    [] t = "study_stats" -> studyStats

ColumnNames(t) == {c.name : c \in Schema(t)}
ColumnOf(t, n) == CHOOSE c \in Schema(t) : c.name = n

----------------------------------------------------------------------------
(* createInsertSchema(table).omit({ id: true }).safeParse(req.body)         *)
(* A request body is a JSON object: a function from keys to JSON values.    *)

InsertColumns(t) == {c \in Schema(t) : c.name # "id"}

\* the zod type drizzle-zod derives for a column; nullable columns accept null
ZodAccepts(c, v) ==
  \/ v = Null /\ ~c.notNull
  \/ c.type = "text" /\ TypeOf(v) = "string"
  \/ c.type = "integer" /\ TypeOf(v) = "number"
  \/ c.type = "boolean" /\ TypeOf(v) = "boolean"

\* nullable columns and columns with a default are optional in the schema
ZodOptional(c) == ~c.notNull \/ c.hasDefault

\* issues: the fields that violate the schema; data: the known keys only
\* (unknown keys, and id, are stripped; defaults are not filled in by zod)
safeParse(t, body) ==
  LET issues == {c.name : c \in {c \in InsertColumns(t) :
                    IF c.name \in DOMAIN body
                      THEN ~ZodAccepts(c, body[c.name])
                      ELSE ~ZodOptional(c)}}
      keys == DOMAIN body \cap {c.name : c \in InsertColumns(t)}
  IN  [success |-> issues = {},
       issues  |-> issues,
       data    |-> IF issues = {} THEN [k \in keys |-> body[k]] ELSE <<>>]

----------------------------------------------------------------------------
(* The store's statements, as drizzle builds them and PostgreSQL runs them. *)
(* A result is [error, rows, returned]: error "none" or what is thrown,     *)
(* rows the table after the statement, returned the RETURNING/SELECT rows.  *)

Thrown(e, rows) == [error |-> e, rows |-> rows, returned |-> {}]
Done(rows, returned) == [error |-> "none", rows |-> rows, returned |-> returned]

\* a parameter the server can read as a value of the column's type
\* (text parameters are drawn as strings only)
SqlAccepts(c, v) ==
  \/ v = Null
  \/ c.type = "text" /\ TypeOf(v) = "string"
  \/ c.type \in {"integer", "serial"} /\ TypeOf(v) = "number"
  \/ c.type = "boolean" /\ TypeOf(v) = "boolean"

\* a lookup that never finds a row
selectNothing(t, rows, col, val) == [error |-> "none", rows |-> rows, returned |-> {}]

\* db.select().from(t).where(eq(t[col], val))
selectWhere(t, rows, col, val) ==
  IF ~SqlAccepts(ColumnOf(t, col), val)
    THEN Thrown("invalid input syntax", rows)
    ELSE Done(rows, {r \in rows : r[col] = val})

\* an insert into a schema that declares study_stats.date unique
insertValuesUniqueDate(t, rows, nextval, data) ==
  LET row == [n \in ColumnNames(t) |->
                LET c == ColumnOf(t, n) IN
                IF c.type = "serial" THEN Num(nextval)
                ELSE IF n \in DOMAIN data THEN data[n]
                ELSE IF c.hasDefault THEN c.default
                ELSE Null]
  IN  IF \/ \E r \in rows : r.id = row.id
         \/ t = "study_stats" /\ \E r \in rows : r.date = row.date
        THEN [error |-> "unique violation", rows |-> rows, returned |-> {}]
        ELSE [error |-> "none", rows |-> rows \cup {row}, returned |-> {row}]

\* db.insert(t).values(data).returning(); id takes nextval of the sequence
insertValues(t, rows, nextval, data) ==
  LET row == [n \in ColumnNames(t) |->
                LET c == ColumnOf(t, n) IN
                IF c.type = "serial" THEN Num(nextval)
                ELSE IF n \in DOMAIN data THEN data[n]
                ELSE IF c.hasDefault THEN c.default
                ELSE Null]
  IN  IF \E c \in Schema(t) : ~SqlAccepts(c, row[c.name])
        THEN Thrown("invalid input syntax", rows)
      ELSE IF \E c \in Schema(t) : c.notNull /\ row[c.name] = Null
        THEN Thrown("not-null violation", rows)
      ELSE IF \E r \in rows : r.id = row.id
        THEN Thrown("unique violation", rows)
      ELSE Done(rows \cup {row}, {row})

\* the columns an update sets: the table's columns among the keys given
SetColumns(t, updates) == DOMAIN updates \cap ColumnNames(t)

\* an update whose WHERE clause is lost: every row is set
updateSetEveryRow(t, rows, updates, col, val) ==
  LET setCols == SetColumns(t, updates)
      apply(r) == [n \in ColumnNames(t) |->
                     IF n \in setCols THEN updates[n] ELSE r[n]]
  IN  IF setCols = {}
        THEN [error |-> "syntax error", rows |-> rows, returned |-> {}]
        ELSE [error |-> "none", rows |-> {apply(r) : r \in rows},
              returned |-> {apply(r) : r \in {r \in rows : r[col] = val}}]

\* db.update(t).set(updates).where(eq(t[col], val)).returning()
updateSet(t, rows, updates, col, val) ==
  LET setCols == SetColumns(t, updates)
      matched == {r \in rows : r[col] = val}
      apply(r) == [n \in ColumnNames(t) |->
                     IF n \in setCols THEN updates[n] ELSE r[n]]
      updated == {apply(r) : r \in matched}
      after   == (rows \ matched) \cup updated
  IN  IF DOMAIN updates = {}
        THEN Thrown("No values to set", rows)
      ELSE IF setCols = {}
        THEN Thrown("syntax error", rows)
      ELSE IF \/ ~SqlAccepts(ColumnOf(t, col), val)
              \/ \E n \in setCols : ~SqlAccepts(ColumnOf(t, n), updates[n])
        THEN Thrown("invalid input syntax", rows)
      ELSE IF \E n \in setCols :
                ColumnOf(t, n).notNull /\ updates[n] = Null /\ matched # {}
        THEN Thrown("not-null violation", rows)
      ELSE IF Cardinality({r.id : r \in after}) # Cardinality(rows)
        THEN Thrown("unique violation", rows)
      ELSE Done(after, updated)

\* a delete that reports the rows it matched and removes none
deleteWhereKeeps(t, rows, id) ==
  [error |-> "none", rows |-> rows, returned |-> {r \in rows : r.id = id}]

\* db.delete(t).where(eq(t.id, id)); rowCount is the size of returned
deleteWhere(t, rows, id) ==
  IF ~SqlAccepts(ColumnOf(t, "id"), id)
    THEN Thrown("invalid input syntax", rows)
    ELSE Done({r \in rows : r.id # id}, {r \in rows : r.id = id})

----------------------------------------------------------------------------
(* Requests explored.  Path and query parameters that go through parseInt   *)
(* are character sequences; the other strings are atoms.                    *)

Chars(cs) == <<"chars", cs>>

DigitChar(n) ==
  CASE n = 0 -> "0" [] n = 1 -> "1" [] n = 2 -> "2" [] n = 3 -> "3"
    [] n = 4 -> "4" [] n = 5 -> "5" [] n = 6 -> "6" [] n = 7 -> "7"
    [] n = 8 -> "8" [] n = 9 -> "9"

\* :id path parameters: every id the sequences can hand out, and a non-number
IdParams == {<<DigitChar(n)>> : n \in 1..MaxInserts} \cup {<<"x">>}

\* ?date= of /api/study-sessions and /api/study-stats (Undefined: absent)
DateQueries == {Undefined, Str(""), Str("d1")}

\* ?subjectId= of /api/notes (Undefined: absent)
SubjectIdQueries ==
  {Undefined, Chars(<<>>), Chars(<<"1">>), Chars(<<"2">>), Chars(<<"1", "x">>),
   Chars(<<"x">>)}

Session(subjectId, date) ==
  [subjectId |-> Num(subjectId), title |-> Str("t"), startTime |-> Str("09:00"),
   endTime |-> Str("10:00"), date |-> Str(date)]

Note(subjectId) ==
  [subjectId |-> Num(subjectId), title |-> Str("t"), content |-> Str("c"),
   createdAt |-> Str("d1")]

\* POST bodies: valid ones (optional fields omitted, all fields given, an id
\* named) and invalid ones (a required field missing, a wrong type, a null)
PostBodies(t) ==
  CASE t = "subjects" ->
         { [name |-> Str("Math")],
           [name |-> Str("Math"), id |-> Num(MaxInserts)],
           [name |-> Str("Art"), color |-> Str("red"), icon |-> Str("i"),
            currentTopic |-> Str("topic"), progress |-> Num(50),
            totalHours |-> Num(3)],
           [color |-> Str("red")],
           [name |-> Str("Math"), progress |-> Null] }
    [] t = "study_sessions" ->
         { Session(1, "d1"),
           Session(2, "") @@ [description |-> Null, status |-> Str("completed"),
                              actualDuration |-> Num(30)],
           [subjectId |-> Num(1), title |-> Str("t")],
           Session(1, "d1") @@ [actualDuration |-> Str("long")] }
    [] t = "notes" ->
         { Note(1), Note(2),
           [subjectId |-> Str("1"), title |-> Str("t"), content |-> Str("c")] }
    [] t = "goals" ->
         { [title |-> Str("g"), targetDate |-> Str("d1")],
           [title |-> Str("g"), targetDate |-> Str("d2"), description |-> Str("x"),
            progress |-> Num(10), isCompleted |-> Bool(TRUE)],
           [title |-> Str("g"), isCompleted |-> Str("no")] }
    [] t = "study_stats" ->
         { [date |-> Str("d1")],
           [date |-> Str("d1"), totalMinutes |-> Num(30),
            sessionsCompleted |-> Num(1), streak |-> Num(1)],
           [date |-> Str("d2"), totalMinutes |-> Num(60)],
           [totalMinutes |-> Num(30)],
           [date |-> Str("d1"), streak |-> Str("one")] }

\* PATCH bodies: none is validated by the handler.  The empty object, the id,
\* an unknown key, one known field, a value of the wrong type, a null
PatchBodies(t) ==
  {<<>>, [bogus |-> Num(1)]} \cup
  CASE t = "subjects" ->
         { [id |-> Num(2)], [progress |-> Num(75)], [progress |-> Str("high")],
           [name |-> Null] }
    [] t = "study_sessions" ->
         { [status |-> Str("in-progress")], [subjectId |-> Str("first")] }
    [] t = "notes" ->
         { [content |-> Str("c2")] }
    [] t = "goals" ->
         { [isCompleted |-> Bool(TRUE)], [progress |-> Str("done")] }

----------------------------------------------------------------------------
(* Route handlers: registerRoutes.  up = FALSE is a request during which   *)
(* the store cannot be reached: the storage call throws.                    *)

Path(t) ==
  CASE t = "subjects" -> "/api/subjects"
    [] t = "study_sessions" -> "/api/study-sessions"
    [] t = "notes" -> "/api/notes"
    [] t = "goals" -> "/api/goals"
    [] t = "study_stats" -> "/api/study-stats"

\* a storage call: the statement's result, or the pool's error
Await(up, rows, result) ==
  IF up THEN result ELSE Thrown("store unavailable", rows)

ByIdPath(t) ==
  CASE t = "subjects" -> "/api/subjects/:id"
    [] t = "study_sessions" -> "/api/study-sessions/:id"
    [] t = "notes" -> "/api/notes/:id"
    [] t = "goals" -> "/api/goals/:id"

Summary(x) ==
  [method |-> x.method, path |-> x.path, arg |-> x.arg, status |-> x.status]

\* res.status(status).json(body) to the request (method, path, arg: the path
\* or query parameter, req: the body); error is what the catch block caught
Send(method, path, arg, req, status, body, error) ==
  /\ last' = [method |-> method, path |-> path, arg |-> arg, req |-> req,
              status |-> status, body |-> body, error |-> error]
  /\ prev' = Summary(last)

\* no exchange yet
NoExchange ==
  [method |-> "", path |-> "", arg |-> Null, req |-> Null, status |-> 0,
   body |-> <<"empty">>, error |-> "none"]

\* the client sends a request once it holds no unread response body
Ready == last.body = <<"empty">>

\* the client reads the body of the latest response
ClientReads ==
  /\ ~Ready
  /\ last' = NoExchange
  /\ prev' = Summary(NoExchange)
  /\ UNCHANGED <<db, seq, calls>>

Message == <<"message">>
Issues(fields) == <<"message", fields>>
Row(r) == <<"row", r>>
Rows(rs) == <<"rows", rs>>
Empty == <<"empty">>

\* const [row] = await ...; return row || undefined
First(returned) == IF returned = {} THEN {Undefined} ELSE returned

\* nextval() calls made so far, and those the suspended calls will make
Inserts ==
  seq["subjects"] + seq["study_sessions"] + seq["notes"] + seq["goals"]
    + seq["study_stats"]
    + BagCardinality(calls)
    - BagCardinality([c \in {c \in BagToSet(calls) : c.existing} |-> calls[c]])

\* app.get(list route without filter): storage.getSubjects / getGoals ...
GetAll(t, arg, up) ==
  LET res == Await(up, db[t], Done(db[t], db[t]))
  IN  /\ Ready
      /\ IF res.error # "none"
           THEN Send("GET", Path(t), arg, Null, 500, Message, res.error)
           ELSE Send("GET", Path(t), arg, Null, 200, Rows(res.returned), "none")
      /\ UNCHANGED <<db, seq, calls>>

\* app.get(list route) with the filter given: getStudySessionsByDate,
\* getNotesBySubject
GetWhere(t, arg, col, val, up) ==
  LET res == Await(up, db[t], selectWhere(t, db[t], col, val))
  IN  /\ Ready
      /\ IF res.error # "none"
           THEN Send("GET", Path(t), arg, Null, 500, Message, res.error)
           ELSE Send("GET", Path(t), arg, Null, 200, Rows(res.returned), "none")
      /\ UNCHANGED <<db, seq, calls>>

\* app.get("/api/subjects/:id")
GetById(t, param, up) ==
  LET id  == parseInt(param)
      res == Await(up, db[t], selectWhere(t, db[t], "id", id))
  IN  /\ Ready
      /\ IF res.error # "none"
           THEN Send("GET", ByIdPath(t), id, Null, 500, Message, res.error)
         ELSE IF res.returned = {}
           THEN Send("GET", ByIdPath(t), id, Null, 404, Message, "none")
         ELSE \E r \in res.returned :
                Send("GET", ByIdPath(t), id, Null, 200, Row(r), "none")
      /\ UNCHANGED <<db, seq, calls>>

\* a create handler that stores req.body without validating it
PostUnvalidated(t, body, up) ==
  LET res == IF up THEN insertValues(t, db[t], seq[t] + 1, body)
                   ELSE [error |-> "store unavailable", rows |-> db[t],
                         returned |-> {}]
  IN  /\ Ready
      /\ up => Inserts < MaxInserts
      /\ seq' = [seq EXCEPT ![t] = IF up THEN @ + 1 ELSE @]
      /\ db' = [db EXCEPT ![t] = res.rows]
      /\ IF res.error # "none"
           THEN Send("POST", Path(t), Null, body, 500, Message, res.error)
           ELSE \E r \in res.returned :
                  Send("POST", Path(t), Null, body, 201, Row(r), "none")
      /\ UNCHANGED calls

\* app.post(create route): safeParse, then storage.createX(result.data)
Post(t, body, up) ==
  LET parsed == safeParse(t, body)
      res    == Await(up, db[t], insertValues(t, db[t], seq[t] + 1, parsed.data))
  IN  /\ Ready
      /\ IF ~parsed.success
           THEN /\ Send("POST", Path(t), Null, body, 400, Issues(parsed.issues), "none")
                /\ UNCHANGED <<db, seq>>
         ELSE IF ~up
           THEN /\ Send("POST", Path(t), Null, body, 500, Message, res.error)
                /\ UNCHANGED <<db, seq>>
         ELSE /\ Inserts < MaxInserts
              /\ seq' = [seq EXCEPT ![t] =
                           IF res.error = "invalid input syntax" THEN @ ELSE @ + 1]
              /\ db' = [db EXCEPT ![t] = res.rows]
              /\ IF res.error # "none"
                   THEN Send("POST", Path(t), Null, body, 500, Message, res.error)
                   ELSE \E r \in res.returned :
                          Send("POST", Path(t), Null, body, 201, Row(r), "none")
      /\ UNCHANGED calls

\* app.patch("/api/x/:id"): storage.updateX(id, req.body)
Patch(t, param, body, up) ==
  LET id  == parseInt(param)
      res == Await(up, db[t], updateSet(t, db[t], body, "id", id))
  IN  /\ Ready
      /\ db' = [db EXCEPT ![t] = res.rows]
      /\ IF res.error # "none"
           THEN Send("PATCH", ByIdPath(t), id, body, 500, Message, res.error)
         ELSE IF res.returned = {}
           THEN Send("PATCH", ByIdPath(t), id, body, 404, Message, "none")
         ELSE \E r \in res.returned :
                Send("PATCH", ByIdPath(t), id, body, 200, Row(r), "none")
      /\ UNCHANGED <<seq, calls>>

\* a delete of a subject that cascades to its sessions and notes
DeleteCascading(t, param, up) ==
  LET id  == parseInt(param)
      res == Await(up, db[t], deleteWhere(t, db[t], id))
  IN  /\ Ready
      /\ db' = [u \in Tables |->
                  IF u = t THEN res.rows
                  ELSE IF t = "subjects" /\ u \in {"study_sessions", "notes"}
                         /\ res.error = "none"
                    THEN {r \in db[u] : r.subjectId # id}
                  ELSE db[u]]
      /\ IF res.error # "none"
           THEN Send("DELETE", ByIdPath(t), id, Null, 500, Message, res.error)
         ELSE IF res.returned = {}
           THEN Send("DELETE", ByIdPath(t), id, Null, 404, Message, "none")
         ELSE Send("DELETE", ByIdPath(t), id, Null, 204, Empty, "none")
      /\ UNCHANGED <<seq, calls>>

\* a delete that also empties the study_stats table
DeleteWithStats(t, param, up) ==
  LET id  == parseInt(param)
      res == Await(up, db[t], deleteWhere(t, db[t], id))
  IN  /\ Ready
      /\ db' = [db EXCEPT ![t] = res.rows,
                          !["study_stats"] = IF res.error = "none" THEN {} ELSE @]
      /\ IF res.error # "none"
           THEN Send("DELETE", ByIdPath(t), id, Null, 500, Message, res.error)
         ELSE IF res.returned = {}
           THEN Send("DELETE", ByIdPath(t), id, Null, 404, Message, "none")
         ELSE Send("DELETE", ByIdPath(t), id, Null, 204, Empty, "none")
      /\ UNCHANGED <<seq, calls>>

\* app.delete("/api/x/:id"): storage.deleteX(id)
Delete(t, param, up) ==
  LET id  == parseInt(param)
      res == Await(up, db[t], deleteWhere(t, db[t], id))
  IN  /\ Ready
      /\ db' = [db EXCEPT ![t] = res.rows]
      /\ IF res.error # "none"
           THEN Send("DELETE", ByIdPath(t), id, Null, 500, Message, res.error)
         ELSE IF res.returned = {}
           THEN Send("DELETE", ByIdPath(t), id, Null, 404, Message, "none")
         ELSE Send("DELETE", ByIdPath(t), id, Null, 204, Empty, "none")
      /\ UNCHANGED <<seq, calls>>

----------------------------------------------------------------------------
(* The routes *)

GetSubjects(up) == GetAll("subjects", Undefined, up)
GetSubject(param, up) == GetById("subjects", param, up)
PostSubjects(body, up) == Post("subjects", body, up)
PatchSubject(param, body, up) == Patch("subjects", param, body, up)
DeleteSubject(param, up) == Delete("subjects", param, up)

\* const date = req.query.date; if (date) byDate else all
GetStudySessions(date, up) ==
  IF Truthy(date)
    THEN GetWhere("study_sessions", date, "date", date, up)
    ELSE GetAll("study_sessions", date, up)
PostStudySessions(body, up) == Post("study_sessions", body, up)
PatchStudySession(param, body, up) == Patch("study_sessions", param, body, up)
DeleteStudySession(param, up) == Delete("study_sessions", param, up)

\* const subjectId = req.query.subjectId; if (subjectId) parseInt(subjectId)
GetNotes(subjectId, up) ==
  IF Truthy(subjectId)
    THEN GetWhere("notes", subjectId, "subjectId", parseInt(subjectId[2]), up)
    ELSE GetAll("notes", subjectId, up)
PostNotes(body, up) == Post("notes", body, up)
PatchNote(param, body, up) == Patch("notes", param, body, up)
DeleteNote(param, up) == Delete("notes", param, up)

GetGoals(up) == GetAll("goals", Undefined, up)
PostGoals(body, up) == Post("goals", body, up)
PatchGoal(param, body, up) == Patch("goals", param, body, up)
DeleteGoal(param, up) == Delete("goals", param, up)

\* GET /api/study-stats: res.json(stats || null) when date is given
GetStudyStats(date, up) ==
  IF Truthy(date)
    THEN LET res == Await(up, db["study_stats"],
                          selectWhere("study_stats", db["study_stats"], "date", date))
         IN  /\ Ready
             /\ IF res.error # "none"
                  THEN Send("GET", Path("study_stats"), date, Null, 500, Message, res.error)
                  ELSE \E r \in First(res.returned) :
                         Send("GET", Path("study_stats"), date, Null, 200,
                              IF r = Undefined THEN Null ELSE Row(r), "none")
             /\ UNCHANGED <<db, seq, calls>>
    ELSE GetAll("study_stats", date, up)

\* POST /api/study-stats up to the second await of createOrUpdateStudyStats:
\* safeParse, then getStudyStatsByDate(insertStats.date) answers.  The call
\* is suspended holding insertStats and existing (only its truthiness is read).
PostStudyStats(body, up) ==
  LET parsed == safeParse("study_stats", body)
      res    == Await(up, db["study_stats"],
                      selectWhere("study_stats", db["study_stats"], "date",
                                  parsed.data.date))
  IN  /\ Ready
      /\ IF ~parsed.success
           THEN /\ Send("POST", Path("study_stats"), Null, body, 400,
                        Issues(parsed.issues), "none")
                /\ UNCHANGED calls
         ELSE IF res.error # "none"
           THEN /\ Send("POST", Path("study_stats"), Null, body, 500, Message,
                        res.error)
                /\ UNCHANGED calls
         ELSE /\ BagCardinality(calls) < MaxCalls
              /\ res.returned = {} => Inserts < MaxInserts
              /\ calls' = calls (+) SetToBag({[stats |-> parsed.data,
                                               existing |-> res.returned # {}]})
              /\ UNCHANGED <<last, prev>>
      /\ UNCHANGED <<db, seq>>

\* createOrUpdateStudyStats after the lookup: if (existing) update where
\* date = insertStats.date, else insert; then res.json(stats)
StudyStatsWrite(c, up) ==
  LET stats == c.stats
      rows  == db["study_stats"]
      res   == IF c.existing
                 THEN Await(up, rows,
                            updateSet("study_stats", rows, stats, "date", stats.date))
                 ELSE Await(up, rows,
                            insertValues("study_stats", rows,
                                         seq["study_stats"] + 1, stats))
  IN  /\ Ready
      /\ BagIn(c, calls)
      /\ calls' = calls (-) SetToBag({c})
      /\ db' = [db EXCEPT !["study_stats"] = res.rows]
      /\ seq' = [seq EXCEPT !["study_stats"] =
                   IF c.existing \/ ~up THEN @ ELSE @ + 1]
      /\ IF res.error # "none"
           THEN Send("POST", Path("study_stats"), Null, stats, 500, Message,
                     res.error)
           ELSE \E r \in First(res.returned) :
                  Send("POST", Path("study_stats"), Null, stats, 200,
                       IF r = Undefined THEN Empty ELSE Row(r), "none")

----------------------------------------------------------------------------
(* The system *)

Init ==
  /\ db = [t \in Tables |-> {}]
  /\ seq = [t \in Tables |-> 0]
  /\ calls = EmptyBag
  /\ last = NoExchange
  /\ prev = Summary(NoExchange)

\* every route but the start of POST /api/study-stats
Routes ==
  \/ \E up \in BOOLEAN : GetSubjects(up)
  \/ \E p \in IdParams, up \in BOOLEAN : GetSubject(p, up)
  \/ \E b \in PostBodies("subjects"), up \in BOOLEAN : PostSubjects(b, up)
  \/ \E p \in IdParams, b \in PatchBodies("subjects"), up \in BOOLEAN :
       PatchSubject(p, b, up)
  \/ \E p \in IdParams, up \in BOOLEAN : DeleteSubject(p, up)
  \/ \E d \in DateQueries, up \in BOOLEAN : GetStudySessions(d, up)
  \/ \E b \in PostBodies("study_sessions"), up \in BOOLEAN : PostStudySessions(b, up)
  \/ \E p \in IdParams, b \in PatchBodies("study_sessions"), up \in BOOLEAN :
       PatchStudySession(p, b, up)
  \/ \E p \in IdParams, up \in BOOLEAN : DeleteStudySession(p, up)
  \/ \E s \in SubjectIdQueries, up \in BOOLEAN : GetNotes(s, up)
  \/ \E b \in PostBodies("notes"), up \in BOOLEAN : PostNotes(b, up)
  \/ \E p \in IdParams, b \in PatchBodies("notes"), up \in BOOLEAN :
       PatchNote(p, b, up)
  \/ \E p \in IdParams, up \in BOOLEAN : DeleteNote(p, up)
  \/ \E up \in BOOLEAN : GetGoals(up)
  \/ \E b \in PostBodies("goals"), up \in BOOLEAN : PostGoals(b, up)
  \/ \E p \in IdParams, b \in PatchBodies("goals"), up \in BOOLEAN :
       PatchGoal(p, b, up)
  \/ \E p \in IdParams, up \in BOOLEAN : DeleteGoal(p, up)
  \/ \E d \in DateQueries, up \in BOOLEAN : GetStudyStats(d, up)
  \/ \E c \in BagToSet(calls), up \in BOOLEAN : StudyStatsWrite(c, up)
  \/ ClientReads

Next ==
  \/ Routes
  \/ \E b \in PostBodies("study_stats"), up \in BOOLEAN : PostStudyStats(b, up)

\* the same system when POST /api/study-stats requests are issued one after
\* another: none starts while a createOrUpdateStudyStats call is suspended
PostStudyStatsSequential(body, up) ==
  /\ calls = EmptyBag
  /\ PostStudyStats(body, up)

NextSequential ==
  \/ Routes
  \/ \E b \in PostBodies("study_stats"), up \in BOOLEAN :
       PostStudyStatsSequential(b, up)

Spec == Init /\ [][Next]_vars

SeqSpec == Init /\ [][NextSequential]_vars

----------------------------------------------------------------------------
(* Properties *)

StatsFields == {"totalMinutes", "sessionsCompleted", "streak"}

StatsRows(rows, date) == {r \in rows : r.date = date}

\* this step is the write of suspended call c
WriteStep(c) == BagIn(c, calls) /\ calls' = calls (-) SetToBag({c})

\* ... and it answered 200
WriteReturned(c) ==
  /\ WriteStep(c)
  /\ last'.method = "POST" /\ last'.path = Path("study_stats")
  /\ last'.status = 200

\* C1 as stated: under sequential POST /api/study-stats requests, after each
\* request answered there is exactly one row for its date and the row holds
\* the totalMinutes, sessionsCompleted and streak of that request (the
\* declared default where the request omits the field).
C1_LatestRequestValues ==
  [][\A c \in BagToSet(calls) :
       WriteReturned(c) =>
         LET rs == StatsRows(db'["study_stats"], c.stats.date)
         IN  /\ Cardinality(rs) = 1
             /\ \A r \in rs, f \in StatsFields :
                  r[f] = IF f \in DOMAIN c.stats THEN c.stats[f]
                         ELSE ColumnOf("study_stats", f).default]_vars

\* C1 amended: under sequential POST /api/study-stats requests there is never
\* more than one row per date; after each request answered there is exactly
\* one row for its date, holding the request's value of every field the
\* request supplies, and for a field it omits the value the row had before
\* (the default 0 when the row is new); rows of other dates are unchanged,
\* and nothing but such a request changes study_stats.
C1_SequentialUpsert ==
  [][/\ \A r1, r2 \in db'["study_stats"] : r1.date = r2.date => r1 = r2
     /\ db'["study_stats"] # db["study_stats"] =>
          \E c \in BagToSet(calls) : WriteReturned(c)
     /\ \A c \in BagToSet(calls) :
          WriteReturned(c) =>
            LET old == StatsRows(db["study_stats"], c.stats.date)
                rs  == StatsRows(db'["study_stats"], c.stats.date)
            IN  /\ Cardinality(rs) = 1
                /\ c.existing <=> old # {}
                /\ \A r \in rs, f \in StatsFields :
                     r[f] = IF f \in DOMAIN c.stats THEN c.stats[f]
                            ELSE IF old # {} THEN (CHOOSE o \in old : TRUE)[f]
                            ELSE ColumnOf("study_stats", f).default
                /\ last'.body = <<"row", CHOOSE r \in rs : TRUE>>
                /\ db'["study_stats"] \ rs = db["study_stats"] \ old]_vars

\* an update by a request that omits totalMinutes answered with the row, which
\* keeps the 30 minutes an earlier request stored
C1_OmittedFieldKept ==
  /\ last.method = "POST" /\ last.path = Path("study_stats") /\ last.status = 200
  /\ "totalMinutes" \notin DOMAIN last.req
  /\ calls = EmptyBag
  /\ \E r \in db["study_stats"] :
       /\ last.body = <<"row", r>>
       /\ r.date = last.req.date
       /\ r.totalMinutes = Num(30)

\* C2: the write of a call whose lookup found no row inserts a row whenever
\* the store answers, whatever rows the date has by then: the number of rows
\* for the date grows by one and the request is answered 200.
C2_InsertAfterStaleLookup ==
  [][\A c \in BagToSet(calls) :
       (WriteStep(c) /\ ~c.existing /\ last'.error # "store unavailable") =>
         /\ last'.status = 200
         /\ Cardinality(StatsRows(db'["study_stats"], c.stats.date))
              = Cardinality(StatsRows(db["study_stats"], c.stats.date)) + 1]_vars

\* two rows of study_stats for one date
C2_DuplicateRows ==
  \E r1, r2 \in db["study_stats"] : r1 # r2 /\ r1.date = r2.date

----------------------------------------------------------------------------

\* a handler answered a request in this step
Responded == last'.method # "" /\ <<last, prev>>' # <<last, prev>>

Answered(x) == x.error # "store unavailable"

ById(x) == x.path \in {ByIdPath(t) : t \in CrudTables}
TableOfById(path) == CHOOSE t \in CrudTables : ByIdPath(t) = path
TableOfPath(path) == CHOOSE t \in Tables : Path(t) = path

\* C3 as stated: a by-id get, update or delete of an id that is not in the
\* entity's store is answered 404, whatever the request body, and leaves the
\* store unchanged.
C3_AbsentIdIsNotFound ==
  [][(/\ Responded /\ ById(last') /\ Answered(last')
      /\ TypeOf(last'.arg) = "number"
      /\ ~\E r \in db[TableOfById(last'.path)] : r.id = last'.arg)
       => (last'.status = 404 /\ db' = db)]_vars

\* a PATCH with an empty body of an id that is not stored, answered 500
C3_EmptyPatchOfAbsentId ==
  /\ last.method = "PATCH" /\ last.status = 500
  /\ last.req = <<>> /\ last.error = "No values to set"
  /\ TypeOf(last.arg) = "number"
  /\ ~\E r \in db[TableOfById(last.path)] : r.id = last.arg

\* C4 as stated: no operation changes the id of an existing row: after every
\* step, a row's id is the id of a row stored before the step, or the value
\* the sequence hands out in this step.
C4_IdImmutable ==
  [][\A t \in Tables : \A r \in db'[t] :
       \/ \E o \in db[t] : o.id = r.id
       \/ seq'[t] = seq[t] + 1 /\ r.id = Num(seq'[t])]_vars

\* PATCH /api/subjects/1 with {id: 2} answered 200 with the row, now of id 2
C4_IdRewritten ==
  /\ last.method = "PATCH" /\ last.path = ByIdPath("subjects")
  /\ last.status = 200 /\ last.arg = Num(1)
  /\ \E r \in db["subjects"] : last.body = <<"row", r>> /\ r.id = Num(2)

\* C5: a PATCH of an existing row with a body of one field X leaves every
\* other table and every other row of the table unchanged; answered 200, it
\* has set X of that row to the value given and nothing else, the response is
\* that row, and fetching it again returns the same row; answered otherwise
\* (500), it has changed nothing.  It is answered 200 whenever X is a field of
\* the insert schema and the value is one the schema accepts for X.
C5_PartialUpdateFrame ==
  [][(/\ Responded /\ last'.method = "PATCH" /\ Answered(last')
      /\ Cardinality(DOMAIN last'.req) = 1
      /\ \E o \in db[TableOfById(last'.path)] : o.id = last'.arg)
       => LET t   == TableOfById(last'.path)
              old == CHOOSE o \in db[t] : o.id = last'.arg
              X   == CHOOSE k \in DOMAIN last'.req : TRUE
              v   == last'.req[X]
          IN  /\ \A u \in Tables \ {t} : db'[u] = db[u]
              /\ db[t] \ {old} \subseteq db'[t]
              /\ (\E c \in InsertColumns(t) : c.name = X /\ ZodAccepts(c, v))
                   => last'.status = 200
              /\ IF last'.status = 200
                   THEN /\ X \in ColumnNames(t)
                        /\ db'[t] = (db[t] \ {old}) \cup {[old EXCEPT ![X] = v]}
                        /\ last'.body = <<"row", [old EXCEPT ![X] = v]>>
                        /\ \A r \in db'[t] \ db[t] :
                             selectWhere(t, db'[t], "id", r.id).returned = {r}
                   ELSE last'.status = 500 /\ db' = db]_vars

\* a PATCH of one field answered 200 while the table holds another row
C5_PatchedOneOfTwo ==
  /\ last.method = "PATCH" /\ last.status = 200
  /\ DOMAIN last.req = {"progress"}
  /\ Cardinality(db["subjects"]) = 2
  /\ \E r \in db["subjects"] : last.body = <<"row", r>> /\ r.progress = Num(75)

\* C6 as stated: every valid creation payload of a subject, session, note or
\* goal is answered 201 with a new row whose id no row was created with
\* before and whose fields are the validated input with the defaults of the
\* omitted fields; fetching that id returns the row.
C6_CreateResult ==
  [][(/\ Responded /\ last'.method = "POST" /\ Answered(last')
      /\ TableOfPath(last'.path) \in CrudTables
      /\ safeParse(TableOfPath(last'.path), last'.req).success)
       => LET t    == TableOfPath(last'.path)
              data == safeParse(t, last'.req).data
          IN  /\ last'.status = 201
              /\ \E r \in db'[t] :
                   /\ last'.body = <<"row", r>>
                   /\ db'[t] = db[t] \cup {r} /\ r \notin db[t]
                   /\ seq'[t] > seq[t] /\ r.id = Num(seq'[t])
                   /\ \A c \in InsertColumns(t) :
                        r[c.name] = IF c.name \in DOMAIN data THEN data[c.name]
                                    ELSE IF c.hasDefault THEN c.default
                                    ELSE Null
                   /\ selectWhere(t, db'[t], "id", r.id).returned = {r}]_vars

\* a valid subject payload answered 500: the sequence handed out an id that
\* a PATCH had given to another row
C6_ValidCreateRefused ==
  /\ last.method = "POST" /\ last.path = Path("subjects")
  /\ safeParse("subjects", last.req).success
  /\ last.status = 500 /\ last.error = "unique violation"

\* C7: a delete of a stored id is answered 204 and removes exactly the row
\* with that id, after which a lookup of the id finds nothing; a delete of an
\* id that is not stored changes nothing; and a delete (or get) of the same
\* id that directly follows a delete answered 204 is answered 404 and leaves
\* the store unchanged.
C7_DeleteTwice ==
  [][/\ (Responded /\ last'.method = "DELETE" /\ Answered(last')) =>
          LET t   == TableOfById(last'.path)
              hit == {r \in db[t] : r.id = last'.arg}
          IN  /\ \A u \in Tables \ {t} : db'[u] = db[u]
              /\ db'[t] = db[t] \ hit
              /\ IF hit # {}
                   THEN /\ last'.status = 204 /\ Cardinality(hit) = 1
                        /\ selectWhere(t, db'[t], "id", last'.arg).returned = {}
                   ELSE last'.status \in {404, 500}
     /\ (/\ Responded /\ Answered(last')
         /\ last.method = "DELETE" /\ last.status = 204
         /\ last'.method \in {"DELETE", "GET"}
         /\ last'.path = last.path /\ last'.arg = last.arg)
          => (last'.status = 404 /\ db' = db)]_vars

\* the second of two deletes of one id in a row, answered 404 after 204
C7_SecondDeleteNotFound ==
  /\ last.method = "DELETE" /\ last.status = 404
  /\ prev.method = "DELETE" /\ prev.status = 204
  /\ prev.path = last.path /\ prev.arg = last.arg

\* the number a query string of decimal digits denotes; NaN for any other
AsNumber(chars) ==
  IF chars # <<>> /\ \A i \in 1..Len(chars) : chars[i] \in Digits
    THEN parseInt(chars) ELSE NaN

ListOf(x, t) == x.method = "GET" /\ x.path = Path(t)

\* C8 as stated: GET /api/study-sessions?date=D returns exactly the sessions
\* whose date equals D and GET /api/notes?subjectId=S exactly the notes whose
\* subjectId equals S, for every D and S; with the parameter absent, all rows.
C8_FilterExact ==
  /\ (ListOf(last, "study_sessions") /\ Answered(last)) =>
       /\ last.status = 200
       /\ last.body = <<"rows", IF last.arg = Undefined THEN db["study_sessions"]
                                ELSE {r \in db["study_sessions"] : r.date = last.arg}>>
  /\ (ListOf(last, "notes") /\ Answered(last)) =>
       /\ last.status = 200
       /\ last.body = <<"rows", IF last.arg = Undefined THEN db["notes"]
                                ELSE {r \in db["notes"] :
                                        r.subjectId = AsNumber(last.arg[2])}>>

\* GET /api/notes?subjectId=x answered 500 by a store that is available
C8_NonNumericSubjectId ==
  /\ ListOf(last, "notes") /\ last.arg = Chars(<<"x">>)
  /\ last.status = 500 /\ Answered(last)

\* C9: a POST whose payload fails the insert schema is answered 400 with the
\* issues, which are not empty, no error is caught, and the store, the
\* sequences and the suspended calls are unchanged; the store being
\* unavailable makes no difference.
C9_InvalidPayload ==
  [][(/\ Responded /\ last'.method = "POST"
      /\ ~safeParse(TableOfPath(last'.path), last'.req).success)
       => /\ last'.status = 400
          /\ last'.body = <<"message",
                            safeParse(TableOfPath(last'.path), last'.req).issues>>
          /\ last'.body[2] # {}
          /\ last'.error = "none"
          /\ UNCHANGED <<db, seq, calls>>]_vars

\* an invalid stats payload answered 400 with its issue
C9_Rejected ==
  /\ last.method = "POST" /\ last.path = Path("study_stats")
  /\ last.status = 400 /\ last.body = <<"message", {"date"}>>
  /\ db["subjects"] # {}

\* C10: DELETE /api/subjects/:id removes at most the one subject with that id
\* and leaves every other table, study_sessions and notes among them,
\* unchanged.
C10_NoCascade ==
  [][(Responded /\ last'.method = "DELETE" /\ last'.path = ByIdPath("subjects"))
       => /\ \A u \in Tables \ {"subjects"} : db'[u] = db[u]
          /\ db'["subjects"] \subseteq db["subjects"]
          /\ Cardinality(db["subjects"] \ db'["subjects"]) <= 1
          /\ \A r \in db["subjects"] \ db'["subjects"] : r.id = last'.arg]_vars

\* a subject was deleted and a session or note still refers to its id
C10_OrphanAfterDelete ==
  /\ last.method = "DELETE" /\ last.path = ByIdPath("subjects")
  /\ last.status = 204
  /\ ~\E r \in db["subjects"] : r.id = last.arg
  /\ \/ \E r \in db["study_sessions"] : r.subjectId = last.arg
     \/ \E r \in db["notes"] : r.subjectId = last.arg

\* C11: in every interleaving, no step lowers the number of study_stats rows
\* of any date, and the write of a createOrUpdateStudyStats call whose lookup
\* found a row (the update branch) matches at least one row: when the store
\* answers, the call is answered 200 with a row that is stored under the
\* call's date, never with an undefined value.
C11_UpdateMatchesRow ==
  [][/\ \A r \in db["study_stats"] :
          Cardinality(StatsRows(db'["study_stats"], r.date))
            >= Cardinality(StatsRows(db["study_stats"], r.date))
     /\ \A c \in BagToSet(calls) :
          (WriteStep(c) /\ c.existing) =>
            /\ StatsRows(db["study_stats"], c.stats.date) # {}
            /\ Answered(last') =>
                 /\ last'.status = 200
                 /\ \E r \in StatsRows(db'["study_stats"], c.stats.date) :
                      last'.body = <<"row", r>>]_vars

\* an update-branch write returned its row while another call that found a
\* row is still suspended
C11_UpdateWhileSuspended ==
  /\ last.method = "POST" /\ last.path = Path("study_stats")
  /\ last.status = 200 /\ last.req = [date |-> Str("d1")]
  /\ \E r \in db["study_stats"] :
       last.body = <<"row", r>> /\ r.totalMinutes = Num(30)
  /\ \E c \in BagToSet(calls) : c.existing

====
